---- MODULE Spec2Model ----
(***************************************************************************)
(* Vizion Gateway web SDK: the transport error classifiers of              *)
(* VizionGatewayClient and PaymentService, their four operations, and the  *)
(* two PaymentForm components (the client-based form of                    *)
(* payment-form.ts:479-1008 and the singleton-based form of                *)
(* payment-form.ts:32-470).                                                *)
(*                                                                         *)
(* JavaScript strings that the code inspects character by character (the   *)
(* card number) are sequences of one-character strings; the other strings  *)
(* are TLA+ strings.  The JavaScript values undefined and null are the     *)
(* sentinels UNDEFINED and NULL.                                           *)
(***************************************************************************)
EXTENDS Integers, Sequences, FiniteSets, TLC

VARIABLES
    apiCall,       \* the last SDK operation run directly: its input and result
    \* the client-based PaymentForm (payment-form.ts:479-1008)
    isSubmitting,  \* private isSubmitting
    formFields,    \* the value of each input of this.formFields
    customValidity, \* the card-number input's custom validity message
    cardTypeAttr,  \* data-card-type of the card-number input's group
    submitButton,  \* this.submitButton: disabled and textContent
    errorElement,  \* this.errorElement: textContent and style.display
    outstanding,   \* client.processCardPayment calls not yet settled
    lastRequest,   \* the arguments of the latest client.processCardPayment call
    lastEvent,     \* what the latest run of handleSubmit did, before or after its await
    options,       \* this.options: amount, currency and the callbacks supplied
    \* the singleton-based PaymentForm (payment-form.ts:32-470)
    mounted,       \* formContainer, formElement and submitButton are set (not null)
    inputs,        \* the value of each input, by element id
    payButton,     \* this.submitButton: disabled and textContent
    errorMessages, \* the texts of the .vizion-error-message elements of the form
    pendingPayments, \* PaymentService.processCardPayment calls not yet settled
    paymentRequest, \* the argument of the latest processCardPayment call
    lastSubmit,    \* what the latest run of handleSubmit did, before or after its await
    config,        \* this.config: amount, currency and the callbacks supplied
    hosted,        \* which PaymentForm the page has constructed
    utilCall,      \* a helper applied to a string: the string and what came back
    \* the VizionGateway class (vizion-gateway.ts)
    gateway,       \* the static VizionGateway.instance and the objects constructed
    gatewayCall    \* the latest call on VizionGateway and what it gave back

apiVars == <<apiCall>>
formVars == <<isSubmitting, formFields, customValidity, cardTypeAttr, submitButton,
              errorElement, outstanding, lastRequest, lastEvent, options>>
singletonVars == <<mounted, inputs, payButton, errorMessages, pendingPayments,
                   paymentRequest, lastSubmit, config>>
pageVars == <<hosted>>
utilVars == <<utilCall>>
gatewayVars == <<gateway, gatewayCall>>
vars == <<apiVars, formVars, singletonVars, pageVars, utilVars, gatewayVars>>

-----------------------------------------------------------------------------
(* JavaScript values *)

UNDEFINED == "<undefined>"
NULL == "<null>"

\* a || b on strings: a unless it is falsy (undefined, null or the empty string)
OrElse(a, b) == IF a \in {UNDEFINED, NULL, ""} THEN b ELSE a

-----------------------------------------------------------------------------
(* Strings inspected character by character *)

DigitChars == {"0", "1", "2", "3", "4", "5", "6", "7", "8", "9"}

\* parseInt(c, 10) of one digit character
DigitValue(c) ==
    CASE c = "0" -> 0 [] c = "1" -> 1 [] c = "2" -> 2 [] c = "3" -> 3
      [] c = "4" -> 4 [] c = "5" -> 5 [] c = "6" -> 6 [] c = "7" -> 7
      [] c = "8" -> 8 [] c = "9" -> 9

IsDigit(c) == c \in DigitChars
IsSpace(c) == c = " "

\* s.replace(/\D/g, '')
StripNonDigits(s) == SelectSeq(s, IsDigit)

NotSpace(c) == ~IsSpace(c)
\* the field's value passed on as it is displayed
KeepSpaces(s) == s
\* s.replace(/\s/g, '')
StripSpaces(s) == SelectSeq(s, NotSpace)

\* a space written after every fourth digit, the last one included
JoinChunksWithTrailingSpace(value) ==
    [i \in 1..(Len(value) + (Len(value) \div 4)) |->
        IF i % 5 = 0 THEN " " ELSE value[i - (i \div 5)]]

\* value.match(/.{1,4}/g)?.join(' '): chunks of four joined by one space
JoinChunksOfFour(value) ==
    [i \in 1..(Len(value) + ((Len(value) - 1) \div 4)) |->
        IF i % 5 = 0 THEN " " ELSE value[i - (i \div 5)]]

\* the value both card-number input listeners write back: the digits of what
\* was typed, in chunks of four
CardNumberDisplay(typed) ==
    LET value == StripNonDigits(typed)
    IN  IF Len(value) > 0 THEN JoinChunksOfFour(value) ELSE value

\* parseInt(s, 10): the leading digits as a number, NaN (-1 here) without any
RECURSIVE LeadingNumber(_, _, _)
LeadingNumber(s, i, acc) ==
    IF i > Len(s) \/ ~IsDigit(s[i]) THEN acc
    ELSE LeadingNumber(s, i + 1, 10 * acc + DigitValue(s[i]))

NaN == -1
ParseInt(s) ==
    LET t == IF Len(s) > 0 /\ IsSpace(s[1]) THEN Tail(s) ELSE s
    IN  IF Len(t) = 0 \/ ~IsDigit(t[1]) THEN NaN ELSE LeadingNumber(t, 1, 0)

-----------------------------------------------------------------------------
(* utils.ts *)

MinCardDigits == 13
MaxCardDigits == 19

RECURSIVE LuhnSum(_, _, _)
\* the loop of utils.ts:65-77, from index i down to 1
LuhnSum(digits, i, shouldDouble) ==
    IF i < 1 THEN 0
    ELSE LET d == DigitValue(digits[i])
             doubled == IF 2 * d > 9 THEN 2 * d - 9 ELSE 2 * d
         IN  (IF shouldDouble THEN doubled ELSE d)
                 + LuhnSum(digits, i - 1, ~shouldDouble)

\* a loop that starts with shouldDouble = true: the rightmost digit is doubled
validateCardNumberDoublingRightmost(cardNumber) ==
    IF Len(cardNumber) = 0 THEN FALSE
    ELSE LET digits == StripNonDigits(cardNumber)
         IN  IF Len(digits) < MinCardDigits \/ Len(digits) > MaxCardDigits
             THEN FALSE
             ELSE LuhnSum(digits, Len(digits), TRUE) % 10 = 0

validateCardNumber(cardNumber) ==
    IF Len(cardNumber) = 0 THEN FALSE
    ELSE LET digits == StripNonDigits(cardNumber)
         IN  IF Len(digits) < MinCardDigits \/ Len(digits) > MaxCardDigits
             THEN FALSE
             ELSE LuhnSum(digits, Len(digits), FALSE) % 10 = 0

HasPrefix(digits, prefix) ==
    Len(digits) >= Len(prefix) /\ SubSeq(digits, 1, Len(prefix)) = prefix

VisaPattern(d) == HasPrefix(d, <<"4">>)
\* /^5[0-5]/: a mastercard range that starts one too low
MastercardPatternFromFifty(d) ==
    Len(d) >= 2 /\ d[1] = "5" /\ d[2] \in {"0", "1", "2", "3", "4", "5"}

\* /^[45][1-5]/: a mastercard range that also takes numbers starting with 4
MastercardPatternOverlappingVisa(d) ==
    Len(d) >= 2 /\ d[1] \in {"4", "5"} /\ d[2] \in {"1", "2", "3", "4", "5"}

MastercardPattern(d) ==
    Len(d) >= 2 /\ d[1] = "5" /\ d[2] \in {"1", "2", "3", "4", "5"}
AmexPattern(d) == Len(d) >= 2 /\ d[1] = "3" /\ d[2] \in {"4", "7"}
DiscoverPattern(d) ==
    \/ HasPrefix(d, <<"6", "0", "1", "1">>)
    \/ HasPrefix(d, <<"6", "5">>)
    \/ Len(d) >= 3 /\ d[1] = "6" /\ d[2] = "4" /\ d[3] \in {"4", "5", "6", "7", "8", "9"}
    \/ HasPrefix(d, <<"6", "2", "2">>)

detectCardType(cardNumber) ==
    IF Len(cardNumber) = 0 THEN UNDEFINED
    ELSE LET digits == StripNonDigits(cardNumber)
         IN  IF VisaPattern(digits) THEN "visa"
             ELSE IF MastercardPattern(digits) THEN "mastercard"
             ELSE IF AmexPattern(digits) THEN "amex"
             ELSE IF DiscoverPattern(digits) THEN "discover"
             ELSE UNDEFINED

-----------------------------------------------------------------------------
(* ./errors as imported by client.ts: ErrorType and VizionGatewayError *)

ErrorType ==
    [AUTHENTICATION |-> "authentication_error",
     VALIDATION |-> "validation_error",
     API |-> "api_error",
     NETWORK |-> "network_error",
     PAYMENT_PROCESSING |-> "payment_processing_error",
     REFUND_PROCESSING |-> "refund_processing_error",
     UNKNOWN |-> "unknown_error"]

ErrorTypeValues == {ErrorType[k] : k \in DOMAIN ErrorType}

\* the details argument: absent, the body's errors field, or a caught exception
NoDetails == [tag |-> "undefined", message |-> ""]
ErrorsPayload == [tag |-> "errors", message |-> "card.number is required"]
CaughtDetails(e) == [tag |-> e.cls, message |-> e.message]

DetailsOf(errors) == IF errors = UNDEFINED THEN NoDetails ELSE ErrorsPayload

\* new VizionGatewayError(message, type, details, statusCode)
VizionGatewayError(message, type, details) ==
    [cls |-> "VizionGatewayError", message |-> message, type |-> type,
     details |-> details, statusCode |-> UNDEFINED]

\* an exception that is not a VizionGatewayError (a TypeError raised by the runtime)
TypeError(message) ==
    [cls |-> "TypeError", message |-> message, type |-> UNDEFINED,
     details |-> NoDetails, statusCode |-> UNDEFINED]

IsVizionGatewayError(e) == e.cls = "VizionGatewayError"

-----------------------------------------------------------------------------
(* Transport outcomes: what axios hands to a response interceptor *)

\* response bodies: JSON null, a non-JSON string, or an object with optional
\* message, errors, code and transaction fields
NullData == [shape |-> "null", message |-> UNDEFINED, errors |-> UNDEFINED,
             code |-> UNDEFINED]
StringData == [shape |-> "string", message |-> UNDEFINED, errors |-> UNDEFINED,
               code |-> UNDEFINED]
BodyMessages == {UNDEFINED, "", "bad field"}
BodyErrors == {UNDEFINED, "errors"}
BodyCodes == {UNDEFINED, "authentication_error", "card_declined"}
ObjectData ==
    [shape : {"object"}, message : BodyMessages, errors : BodyErrors,
     code : BodyCodes]
DataValues == {NullData, StringData} \cup ObjectData

FailureStatuses == {400, 401, 403, 404, 500}
ExceptionMessages == {UNDEFINED, "", "Request aborted"}

\* error.response present: the server answered with a failure status
ResponseOutcomes ==
    [kind : {"response"}, hasResponse : {TRUE}, hasRequest : {TRUE},
     status : FailureStatuses, data : DataValues, message : {"Request failed"}]
\* error.request present, no response: nothing came back
NetworkOutcomes ==
    [kind : {"network"}, hasResponse : {FALSE}, hasRequest : {TRUE},
     status : {0}, data : {NullData}, message : {"Network Error"}]
\* neither: the request could not be set up
SetupOutcomes ==
    [kind : {"setup"}, hasResponse : {FALSE}, hasRequest : {FALSE},
     status : {0}, data : {NullData}, message : ExceptionMessages]
\* a 2xx response: the promise resolves
SuccessOutcomes ==
    [kind : {"ok"}, hasResponse : {TRUE}, hasRequest : {TRUE},
     status : {200}, data : {NullData, StringData,
                             [shape |-> "object", message |-> UNDEFINED,
                              errors |-> UNDEFINED, code |-> UNDEFINED]},
     message : {""}]
FailureOutcomes == ResponseOutcomes \cup NetworkOutcomes \cup SetupOutcomes
Outcomes == FailureOutcomes \cup SuccessOutcomes

\* a settled promise
Resolved(v) == [settled |-> "resolved", value |-> v, error |-> TypeError("")]
Rejected(e) == [settled |-> "rejected", value |-> NullData, error |-> e]

\* reading a property of null or undefined throws
PropertyReadThrows(data) == data.shape = "null"
ReadError == TypeError("Cannot read properties of null")

-----------------------------------------------------------------------------
(* VizionGatewayClient: the response interceptor of client.ts:43-83 *)

AuthenticationMessage == "Authentication failed. Check your API key and merchant ID."
ValidationFallback == "Invalid request parameters"
ApiFallback == "An error occurred while processing your request"
NetworkMessage == "Network error. Please check your connection."
UnknownFallback == "An unexpected error occurred"

\* a 401 branch written like the two below it, taking the message from the body
ClientOnUnauthorizedFromBody(data) ==
    Rejected(VizionGatewayError(OrElse(data.message, AuthenticationMessage),
                                ErrorType.AUTHENTICATION, DetailsOf(data.errors)))

\* status === 401 (client.ts:49-54)
ClientOnUnauthorized(data) ==
    Rejected(VizionGatewayError(AuthenticationMessage, ErrorType.AUTHENTICATION,
                                NoDetails))

\* status === 400 (client.ts:56-62)
ClientOnBadRequest(data) ==
    IF PropertyReadThrows(data)
    THEN Rejected(ReadError)
    ELSE Rejected(VizionGatewayError(OrElse(data.message, ValidationFallback),
                                     ErrorType.VALIDATION, DetailsOf(data.errors)))

\* any other status of a response (client.ts:64-68)
ClientOnOtherStatus(data) ==
    IF PropertyReadThrows(data)
    THEN Rejected(ReadError)
    ELSE Rejected(VizionGatewayError(OrElse(data.message, ApiFallback),
                                     ErrorType.API, DetailsOf(data.errors)))

\* a no-response branch that passes the transport's own message on
ClientOnNoResponseOwnMessage(error) ==
    Rejected(VizionGatewayError(OrElse(error.message, NetworkMessage),
                                ErrorType.NETWORK, NoDetails))

\* error.request without a response (client.ts:71-76)
ClientOnNoResponse(error) ==
    Rejected(VizionGatewayError(NetworkMessage, ErrorType.NETWORK, NoDetails))

\* neither a response nor a request (client.ts:78-81)
ClientOnUnexpected(error) ==
    Rejected(VizionGatewayError(OrElse(error.message, UnknownFallback),
                                ErrorType.UNKNOWN, NoDetails))

ClientResponseInterceptor(error) ==
    IF error.hasResponse
    THEN IF error.status = 401 THEN ClientOnUnauthorized(error.data)
         ELSE IF error.status = 400 THEN ClientOnBadRequest(error.data)
         ELSE ClientOnOtherStatus(error.data)
    ELSE IF error.hasRequest THEN ClientOnNoResponse(error)
    ELSE ClientOnUnexpected(error)

\* this.http.post / this.http.get: the promise the operation awaits
ClientHttp(outcome) ==
    IF outcome.kind = "ok" THEN Resolved(outcome.data)
    ELSE ClientResponseInterceptor(outcome)

\* a catch block without the instanceof test: every caught error is wrapped
ClientCatchAlwaysWrap(error, message, type) ==
    Rejected(VizionGatewayError(message, type, CaughtDetails(error)))

\* a catch block that re-labels API and UNKNOWN errors with the operation's type
ClientCatchRelabel(error, message, type) ==
    IF IsVizionGatewayError(error)
    THEN IF error.type \in {ErrorType.API, ErrorType.UNKNOWN}
         THEN Rejected(VizionGatewayError(error.message, type, error.details))
         ELSE Rejected(error)
    ELSE Rejected(VizionGatewayError(message, type, CaughtDetails(error)))

\* a catch block that re-throws whatever it caught
ClientCatchRethrowAll(error, message, type) == Rejected(error)

\* the catch block shared by the four operations: a VizionGatewayError is
\* re-thrown as it is, anything else is wrapped
ClientCatch(error, message, type) ==
    IF IsVizionGatewayError(error)
    THEN Rejected(error)
    ELSE Rejected(VizionGatewayError(message, type, CaughtDetails(error)))

\* return response.data.transaction (or the list fields) inside the try block
ClientTry(http, message, type) ==
    IF http.settled = "rejected"
    THEN ClientCatch(http.error, message, type)
    ELSE IF PropertyReadThrows(http.value)
         THEN ClientCatch(ReadError, message, type)
         ELSE Resolved(http.value)

ClientProcessCardPayment(outcome) ==
    ClientTry(ClientHttp(outcome), "Failed to process card payment",
              ErrorType.PAYMENT_PROCESSING)

ClientGetTransaction(outcome) ==
    ClientTry(ClientHttp(outcome), "Failed to retrieve transaction", ErrorType.API)

ClientListTransactions(outcome) ==
    ClientTry(ClientHttp(outcome), "Failed to list transactions", ErrorType.API)

ClientRefundTransaction(outcome) ==
    ClientTry(ClientHttp(outcome), "Failed to process refund",
              ErrorType.REFUND_PROCESSING)

-----------------------------------------------------------------------------
(* ../utils/errors as imported by payment-service.ts and the singleton-based
   form: ErrorType and VizionGatewayError(message, code, statusCode = 500) *)

ServiceErrorType ==
    [CONFIGURATION_ERROR |-> "configuration_error",
     AUTHENTICATION_ERROR |-> "authentication_error",
     VALIDATION_ERROR |-> "validation_error",
     PAYMENT_PROCESSING_ERROR |-> "payment_processing_error",
     TRANSACTION_RETRIEVAL_ERROR |-> "transaction_retrieval_error",
     REFUND_PROCESSING_ERROR |-> "refund_processing_error",
     NETWORK_ERROR |-> "network_error",
     SERVER_ERROR |-> "server_error",
     UNKNOWN_ERROR |-> "unknown_error"]

ServiceErrorTypeValues == {ServiceErrorType[k] : k \in DOMAIN ServiceErrorType}

DefaultStatusCode == 500

\* super(message): an undefined message becomes the empty string
ServiceError(message, code, statusCode) ==
    [cls |-> "VizionGatewayError",
     message |-> IF message = UNDEFINED THEN "" ELSE message,
     type |-> code, details |-> NoDetails, statusCode |-> statusCode]

-----------------------------------------------------------------------------
(* PaymentService: the response interceptor of payment-service.ts:32-42 *)

ServiceUnknownMessage == "Unknown error occurred"

\* error.response?.data || { message: 'Unknown error occurred' }
ServiceErrorResponse(error) ==
    IF error.hasResponse /\ error.data.shape # "null"
    THEN error.data
    ELSE [shape |-> "object", message |-> ServiceUnknownMessage,
          errors |-> UNDEFINED, code |-> UNDEFINED]

ServiceResponseInterceptor(error) ==
    LET errorResponse == ServiceErrorResponse(error)
    IN  Rejected(ServiceError(errorResponse.message,
                              OrElse(errorResponse.code, "unknown_error"),
                              IF error.hasResponse THEN error.status
                              ELSE DefaultStatusCode))

ServiceHttp(outcome) ==
    IF outcome.kind = "ok" THEN Resolved(outcome.data)
    ELSE ServiceResponseInterceptor(outcome)

\* a catch block without the instanceof test: every caught error is wrapped
ServiceCatchAlwaysWrap(error, message, code) ==
    Rejected(ServiceError(message, code, DefaultStatusCode))

\* the catch block shared by the four operations
ServiceCatch(error, message, code) ==
    IF IsVizionGatewayError(error)
    THEN Rejected(error)
    ELSE Rejected(ServiceError(message, code, DefaultStatusCode))

\* return response.data inside the try block
ServiceTry(http, message, code) ==
    IF http.settled = "rejected"
    THEN ServiceCatch(http.error, message, code)
    ELSE Resolved(http.value)

ServiceProcessCardPayment(outcome) ==
    ServiceTry(ServiceHttp(outcome), "Failed to process card payment",
               ServiceErrorType.PAYMENT_PROCESSING_ERROR)

ServiceGetTransaction(outcome) ==
    ServiceTry(ServiceHttp(outcome), "Failed to retrieve transaction",
               ServiceErrorType.TRANSACTION_RETRIEVAL_ERROR)

ServiceListTransactions(outcome) ==
    ServiceTry(ServiceHttp(outcome), "Failed to list transactions",
               ServiceErrorType.TRANSACTION_RETRIEVAL_ERROR)

ServiceProcessRefund(outcome) ==
    ServiceTry(ServiceHttp(outcome), "Failed to process refund",
               ServiceErrorType.REFUND_PROCESSING_ERROR)

-----------------------------------------------------------------------------
(* The SDK operations run directly by a caller *)

NoCall == [target |-> "none", op |-> "none", outcome |-> CHOOSE o \in SuccessOutcomes : TRUE,
           classified |-> Resolved(NullData), result |-> Resolved(NullData)]

ApiInit == apiCall = NoCall

CallClientProcessCardPayment ==
    \E outcome \in Outcomes :
        /\ apiCall.target = "none"
        /\ apiCall' = [target |-> "client", op |-> "processCardPayment",
                       outcome |-> outcome, classified |-> ClientHttp(outcome),
                       result |-> ClientProcessCardPayment(outcome)]

CallClientGetTransaction ==
    \E outcome \in Outcomes :
        /\ apiCall.target = "none"
        /\ apiCall' = [target |-> "client", op |-> "getTransaction",
                       outcome |-> outcome, classified |-> ClientHttp(outcome),
                       result |-> ClientGetTransaction(outcome)]

CallClientListTransactions ==
    \E outcome \in Outcomes :
        /\ apiCall.target = "none"
        /\ apiCall' = [target |-> "client", op |-> "listTransactions",
                       outcome |-> outcome, classified |-> ClientHttp(outcome),
                       result |-> ClientListTransactions(outcome)]

CallClientRefundTransaction ==
    \E outcome \in Outcomes :
        /\ apiCall.target = "none"
        /\ apiCall' = [target |-> "client", op |-> "refundTransaction",
                       outcome |-> outcome, classified |-> ClientHttp(outcome),
                       result |-> ClientRefundTransaction(outcome)]

CallServiceProcessCardPayment ==
    \E outcome \in Outcomes :
        /\ apiCall.target = "none"
        /\ apiCall' = [target |-> "service", op |-> "processCardPayment",
                       outcome |-> outcome, classified |-> ServiceHttp(outcome),
                       result |-> ServiceProcessCardPayment(outcome)]

CallServiceGetTransaction ==
    \E outcome \in Outcomes :
        /\ apiCall.target = "none"
        /\ apiCall' = [target |-> "service", op |-> "getTransaction",
                       outcome |-> outcome, classified |-> ServiceHttp(outcome),
                       result |-> ServiceGetTransaction(outcome)]

CallServiceListTransactions ==
    \E outcome \in Outcomes :
        /\ apiCall.target = "none"
        /\ apiCall' = [target |-> "service", op |-> "listTransactions",
                       outcome |-> outcome, classified |-> ServiceHttp(outcome),
                       result |-> ServiceListTransactions(outcome)]

CallServiceProcessRefund ==
    \E outcome \in Outcomes :
        /\ apiCall.target = "none"
        /\ apiCall' = [target |-> "service", op |-> "processRefund",
                       outcome |-> outcome, classified |-> ServiceHttp(outcome),
                       result |-> ServiceProcessRefund(outcome)]

\* the caller has observed the result
ApiReturn ==
    /\ apiCall.target # "none"
    /\ apiCall' = NoCall

ApiNext ==
    \/ ApiReturn /\ UNCHANGED <<formVars, singletonVars, pageVars, utilVars, gatewayVars>>
    \/ CallClientProcessCardPayment /\ UNCHANGED <<formVars, singletonVars, pageVars, utilVars, gatewayVars>>
    \/ CallClientGetTransaction /\ UNCHANGED <<formVars, singletonVars, pageVars, utilVars, gatewayVars>>
    \/ CallClientListTransactions /\ UNCHANGED <<formVars, singletonVars, pageVars, utilVars, gatewayVars>>
    \/ CallClientRefundTransaction /\ UNCHANGED <<formVars, singletonVars, pageVars, utilVars, gatewayVars>>
    \/ CallServiceProcessCardPayment /\ UNCHANGED <<formVars, singletonVars, pageVars, utilVars, gatewayVars>>
    \/ CallServiceGetTransaction /\ UNCHANGED <<formVars, singletonVars, pageVars, utilVars, gatewayVars>>
    \/ CallServiceListTransactions /\ UNCHANGED <<formVars, singletonVars, pageVars, utilVars, gatewayVars>>
    \/ CallServiceProcessRefund /\ UNCHANGED <<formVars, singletonVars, pageVars, utilVars, gatewayVars>>

-----------------------------------------------------------------------------
(* The client-based PaymentForm (payment-form.ts:479-1008) *)

MaxOutstanding == 2

Chars(digits) == [i \in 1..Len(digits) |-> CASE digits[i] = 0 -> "0" [] digits[i] = 1 -> "1"
    [] digits[i] = 2 -> "2" [] digits[i] = 3 -> "3" [] digits[i] = 4 -> "4"
    [] digits[i] = 5 -> "5" [] digits[i] = 6 -> "6" [] digits[i] = 7 -> "7"
    [] digits[i] = 8 -> "8" [] digits[i] = 9 -> "9"]

EmptyString == <<>>
ValidVisa == Chars(<<4, 2, 4, 2, 4, 2, 4, 2, 4, 2, 4, 2, 4, 2, 4, 2>>)
InvalidVisa == Chars(<<4, 2, 4, 2, 4, 2, 4, 2, 4, 2, 4, 2, 4, 2, 4, 1>>)
ValidMastercard == Chars(<<5, 1, 0, 5, 1, 0, 5, 1, 0, 5, 1, 0, 5, 1, 0, 0>>)
TooShort == Chars(<<1, 2, 3>>)
DashedVisa ==
    <<"4", "2", "4", "2", "-", "4", "2", "4", "2", "-", "4", "2", "4", "2", "-",
      "4", "2", "4", "2">>

\* what the user may type or paste into the card-number input (maxLength 19)
CardNumberInputs == {EmptyString, ValidVisa, InvalidVisa, ValidMastercard, TooShort,
                     DashedVisa}
ExpiryMonthInputs == {EmptyString, Chars(<<1, 2>>), Chars(<<1, 3>>)}
\* the year, the CVV and the cardholder name, typed together
OtherInputs ==
    {[expiryYear |-> EmptyString, cvv |-> EmptyString, cardholderName |-> EmptyString],
     [expiryYear |-> Chars(<<2, 0, 3, 0>>), cvv |-> Chars(<<1, 2, 3>>),
      cardholderName |-> <<"J", "D">>],
     [expiryYear |-> Chars(<<2, 0, 3, 0>>), cvv |-> Chars(<<1, 2>>),
      cardholderName |-> <<"J", "D">>]}

\* the options of the form: both callbacks supplied, or neither
FormOptions ==
    {[amount |-> 4999, currency |-> "XCD", onSuccess |-> b, onError |-> b] :
        b \in BOOLEAN}

\* the transport outcomes a payment of the form may end with
FormOutcomes ==
    {o \in Outcomes :
        \/ o.kind = "ok" /\ o.data.shape \in {"null", "object"}
        \/ o.kind = "network"
        \/ /\ o.kind = "response"
           /\ o.status \in {401, 500}
           /\ o.data.shape \in {"null", "object"}
           /\ o.data.errors = UNDEFINED /\ o.data.code = UNDEFINED
           /\ o.data.message \in {UNDEFINED, "bad field"}}

NoRequest == [cardNumber |-> EmptyString, expiryMonth |-> NaN, expiryYear |-> NaN,
              cvv |-> EmptyString, cardholderName |-> EmptyString,
              amount |-> 0, currency |-> "", sent |-> FALSE]

\* nothing handed to onError
NoError == [cls |-> "none", message |-> "", type |-> UNDEFINED,
            details |-> NoDetails, statusCode |-> UNDEFINED]

Event(name) == [name |-> name, onSuccess |-> 0, onError |-> 0, uncaught |-> FALSE,
                received |-> NoError, evicted |-> FALSE]

FormInit ==
    /\ isSubmitting = FALSE
    /\ formFields = [cardholderName |-> EmptyString, cardNumber |-> EmptyString,
                     expiryMonth |-> EmptyString, expiryYear |-> EmptyString,
                     cvv |-> EmptyString]
    /\ customValidity = ""
    /\ cardTypeAttr = UNDEFINED
    /\ submitButton = [disabled |-> FALSE, textContent |-> "Pay Now"]
    /\ errorElement = [textContent |-> "", display |-> "none"]
    /\ outstanding = 0
    /\ lastRequest = NoRequest
    /\ lastEvent = Event("render")
    /\ options \in FormOptions

\* every character of value satisfies Class(_) and its length is in min..max
MatchesPattern(value, Class(_), min, max) ==
    /\ Len(value) >= min /\ Len(value) <= max
    /\ \A i \in 1..Len(value) : Class(value[i])

IsDigitOrSpace(c) == IsDigit(c) \/ IsSpace(c)

\* the constraints render gives the inputs: required on all, a pattern on four
\* of them, and the card number's custom validity
FieldIsValid(fields, validity, name) ==
    /\ Len(fields[name]) > 0
    /\ CASE name = "cardNumber" ->
              MatchesPattern(fields[name], IsDigitOrSpace, 13, 19) /\ validity = ""
         [] name = "expiryMonth" -> MatchesPattern(fields[name], IsDigit, 1, 2)
         [] name = "expiryYear" -> MatchesPattern(fields[name], IsDigit, 4, 4)
         [] name = "cvv" -> MatchesPattern(fields[name], IsDigit, 3, 4)
         [] OTHER -> TRUE

\* this.formElement.checkValidity()
checkValidity(fields, validity) ==
    \A name \in DOMAIN fields : FieldIsValid(fields, validity, name)

\* handleCardNumberInput: the value is regrouped, the card type set when detected
handleCardNumberInput ==
    \E typed \in CardNumberInputs :
        LET value == CardNumberDisplay(typed)
            cardType == detectCardType(value)
        IN  /\ formFields' = [formFields EXCEPT !.cardNumber = value]
            /\ cardTypeAttr' = IF cardType # UNDEFINED THEN cardType ELSE cardTypeAttr
            /\ UNCHANGED <<isSubmitting, customValidity, submitButton, errorElement,
                           outstanding, lastRequest, lastEvent, options>>

\* the blur listener of the card-number input
validateCardNumberOnBlur ==
    LET value == StripSpaces(formFields.cardNumber)
    IN  /\ customValidity' = IF Len(value) > 0 /\ ~validateCardNumber(value)
                             THEN "Invalid card number" ELSE ""
        /\ UNCHANGED <<isSubmitting, formFields, cardTypeAttr, submitButton,
                       errorElement, outstanding, lastRequest, lastEvent, options>>

\* the user edits the expiry month (no listener)
ExpiryMonthInput ==
    \E typed \in ExpiryMonthInputs :
        /\ formFields' = [formFields EXCEPT !.expiryMonth = typed]
        /\ UNCHANGED <<isSubmitting, customValidity, cardTypeAttr, submitButton,
                       errorElement, outstanding, lastRequest, lastEvent, options>>

\* the user edits the year, the CVV and the name (no listener)
OtherFieldsInput ==
    \E typed \in OtherInputs :
        /\ formFields' = [formFields EXCEPT !.expiryYear = typed.expiryYear,
                                            !.cvv = typed.cvv,
                                            !.cardholderName = typed.cardholderName]
        /\ UNCHANGED <<isSubmitting, customValidity, cardTypeAttr, submitButton,
                       errorElement, outstanding, lastRequest, lastEvent, options>>

ClearedError == [textContent |-> "", display |-> "none"]

\* a handleSubmit without the isSubmitting guard
SubmitIsNeverIgnored == FALSE

\* the guard at the top of handleSubmit
SubmitIsIgnored == isSubmitting

\* handleSubmit up to its await
handleSubmit ==
    IF SubmitIsIgnored
    THEN /\ lastEvent' = Event("submit-ignored")
         /\ UNCHANGED <<isSubmitting, formFields, customValidity, cardTypeAttr,
                        submitButton, errorElement, outstanding, lastRequest, options>>
    ELSE IF ~checkValidity(formFields, customValidity)
    THEN /\ errorElement' = ClearedError
         /\ lastEvent' = Event("submit-invalid")
         /\ UNCHANGED <<isSubmitting, formFields, customValidity, cardTypeAttr,
                        submitButton, outstanding, lastRequest, options>>
    ELSE /\ outstanding < MaxOutstanding
         /\ errorElement' = ClearedError
         /\ isSubmitting' = TRUE
         /\ submitButton' = [disabled |-> TRUE, textContent |-> "Processing..."]
         /\ lastRequest' =
                [cardNumber |-> StripSpaces(formFields.cardNumber),
                 expiryMonth |-> ParseInt(formFields.expiryMonth),
                 expiryYear |-> ParseInt(formFields.expiryYear),
                 cvv |-> formFields.cvv,
                 cardholderName |-> formFields.cardholderName,
                 amount |-> options.amount, currency |-> options.currency,
                 sent |-> TRUE]
         /\ outstanding' = outstanding + 1
         /\ lastEvent' = Event("submit-sent")
         /\ UNCHANGED <<formFields, customValidity, cardTypeAttr, options>>

GenericFormError == "An error occurred while processing your payment"

\* showError(error)
showError(error) ==
    [textContent |-> IF IsVizionGatewayError(error) THEN error.message
                     ELSE GenericFormError,
     display |-> "block"]

\* formElement.reset(): every input back to its default value
ResetFields(fields) == [name \in DOMAIN fields |-> EmptyString]

\* a catch block that calls processCardPayment again: a failed call is replaced
\* by a new one
CallsLeftAfterRetry(calls, failed) == IF failed THEN calls ELSE calls - 1

\* the calls still outstanding once one has settled: neither the try block's
\* tail nor the catch block nor the finally block of either form starts another
CallsLeftAfterSettle(calls, failed) == calls - 1

\* the argument of options.onError: error instanceof Error ? error : new
\* Error(String(error)); every exception of the model is an Error
OnErrorArgument(error) == error

\* a flag cleared at the end of the try block instead: a failure leaves it set
FlagClearedOnSuccessOnly(caught) == caught

\* the finally block of handleSubmit: the flag, whatever the try block did
FlagAfterCompletion(caught) == FALSE
FinallyButton == [disabled |-> FALSE, textContent |-> "Pay Now"]

\* handleSubmit from the settling of client.processCardPayment to its end:
\* the try block's tail, the catch block and the finally block
completeSubmit ==
    \E outcome \in FormOutcomes, successThrows \in BOOLEAN, errorThrows \in BOOLEAN :
        LET result == ClientProcessCardPayment(outcome)
            resolved == result.settled = "resolved"
            calledSuccess == resolved /\ options.onSuccess
            successThrew == calledSuccess /\ successThrows
            caught == ~resolved \/ successThrew
            calledError == caught /\ options.onError
            errorThrew == calledError /\ errorThrows
            error == IF ~resolved THEN result.error ELSE TypeError("onSuccess threw")
        IN  /\ outstanding > 0
            /\ successThrows => options.onSuccess /\ resolved
            /\ errorThrows => calledError
            /\ outstanding' = CallsLeftAfterSettle(outstanding, ~resolved)
            /\ formFields' = IF resolved /\ ~successThrew THEN ResetFields(formFields)
                             ELSE formFields
            /\ errorElement' =
                  IF caught THEN showError(error) ELSE errorElement
            /\ isSubmitting' = FlagAfterCompletion(caught)
            /\ submitButton' = FinallyButton
            /\ lastEvent' = [name |-> IF caught THEN "completed-failure"
                                      ELSE "completed-success",
                             onSuccess |-> IF calledSuccess THEN 1 ELSE 0,
                             onError |-> IF calledError THEN 1 ELSE 0,
                             uncaught |-> errorThrew,
                             received |-> IF calledError THEN OnErrorArgument(error)
                                          ELSE NoError,
                             evicted |-> caught /\ errorElement.display = "block"]
            /\ UNCHANGED <<customValidity, cardTypeAttr, lastRequest, options>>

FormNext ==
    \/ handleCardNumberInput /\ UNCHANGED <<apiVars, singletonVars, pageVars, utilVars, gatewayVars>>
    \/ validateCardNumberOnBlur /\ UNCHANGED <<apiVars, singletonVars, pageVars, utilVars, gatewayVars>>
    \/ ExpiryMonthInput /\ UNCHANGED <<apiVars, singletonVars, pageVars, utilVars, gatewayVars>>
    \/ OtherFieldsInput /\ UNCHANGED <<apiVars, singletonVars, pageVars, utilVars, gatewayVars>>
    \/ handleSubmit /\ UNCHANGED <<apiVars, singletonVars, pageVars, utilVars, gatewayVars>>
    \/ completeSubmit /\ UNCHANGED <<apiVars, singletonVars, pageVars, utilVars, gatewayVars>>

-----------------------------------------------------------------------------
(* The singleton-based PaymentForm (payment-form.ts:32-470) *)

\* what the user may type into the inputs of the form
SingletonCardInputs == {EmptyString, ValidVisa, DashedVisa}
ExpiryInputs == {EmptyString, Chars(<<1, 2, 3, 0>>), Chars(<<1, 3, 3, 0>>)}
\* the CVC and the cardholder name, typed together
CvcAndNameInputs ==
    {[cvc |-> EmptyString, name |-> EmptyString],
     [cvc |-> Chars(<<1, 2, 3>>), name |-> <<"J", "D">>]}

SingletonOutcomes ==
    {o \in Outcomes :
        \/ o.kind = "ok" /\ o.data.shape = "object"
        \/ o.kind = "network"
        \/ /\ o.kind = "response"
           /\ o.status = 500
           /\ o.data.shape = "object"
           /\ o.data.errors = UNDEFINED /\ o.data.code = UNDEFINED
           /\ o.data.message = "bad field"}

EmptyInputs == [cardNumber |-> EmptyString, expiry |-> EmptyString,
                cvc |-> EmptyString, cardholderName |-> EmptyString]

NoPaymentRequest ==
    [number |-> EmptyString, expiryMonth |-> EmptyString, expiryYear |-> EmptyString,
     cvc |-> EmptyString, holderName |-> EmptyString, amount |-> 0, currency |-> "",
     sent |-> FALSE]

\* `Pay ${this.formatAmount(amount, currency)}`
PayLabel == "Pay <amount>"

SingletonInit ==
    /\ mounted = FALSE
    /\ inputs = EmptyInputs
    /\ payButton = [disabled |-> FALSE, textContent |-> PayLabel]
    /\ errorMessages = <<>>
    /\ pendingPayments = 0
    /\ paymentRequest = NoPaymentRequest
    /\ lastSubmit = Event("constructed")
    /\ config \in FormOptions

\* mount(elementId): a new container, form, inputs and button
mount ==
    /\ ~mounted
    /\ mounted' = TRUE
    /\ inputs' = EmptyInputs
    /\ payButton' = [disabled |-> FALSE, textContent |-> PayLabel]
    /\ errorMessages' = <<>>
    /\ UNCHANGED <<pendingPayments, paymentRequest, lastSubmit, config>>

\* unmount()
unmount ==
    /\ mounted
    /\ mounted' = FALSE
    /\ UNCHANGED <<inputs, payButton, errorMessages, pendingPayments, paymentRequest,
                   lastSubmit, config>>

\* formatCardNumber: the input listener of the card-number input
formatCardNumber ==
    \E typed \in SingletonCardInputs :
        LET value == CardNumberDisplay(typed)
        IN  /\ mounted
            /\ inputs' = [inputs EXCEPT !.cardNumber = value]
            /\ UNCHANGED <<mounted, payButton, errorMessages, pendingPayments,
                           paymentRequest, lastSubmit, config>>

\* `${value.substring(0, 2)} / ${value.substring(2, 4)}`
ExpiryDisplay(value) ==
    SubSeq(value, 1, 2) \o <<" ", "/", " ">>
        \o SubSeq(value, 3, IF Len(value) < 4 THEN Len(value) ELSE 4)

\* formatExpiry: the input listener of the expiry input; an input without
\* digits is left as typed
formatExpiry ==
    \E typed \in ExpiryInputs :
        LET value == StripNonDigits(typed)
        IN  /\ mounted
            /\ inputs' = [inputs EXCEPT !.expiry =
                              IF Len(value) = 0 THEN typed
                              ELSE IF Len(value) <= 2 THEN value
                              ELSE ExpiryDisplay(value)]
            /\ UNCHANGED <<mounted, payButton, errorMessages, pendingPayments,
                           paymentRequest, lastSubmit, config>>

\* formatCVC, and the name input (no listener)
formatCVC ==
    \E typed \in CvcAndNameInputs :
        /\ mounted
        /\ inputs' = [inputs EXCEPT !.cvc = StripNonDigits(typed.cvc),
                                    !.cardholderName = typed.name]
        /\ UNCHANGED <<mounted, payButton, errorMessages, pendingPayments,
                       paymentRequest, lastSubmit, config>>

\* expiry.split('/'): the text before the first slash, and the text between
\* the first and the second
RECURSIVE SlashAt(_, _)
SlashAt(s, i) == IF i > Len(s) THEN Len(s) + 1
                 ELSE IF s[i] = "/" THEN i ELSE SlashAt(s, i + 1)

RECURSIVE TrimLeft(_)
TrimLeft(s) == IF Len(s) > 0 /\ IsSpace(s[1]) THEN TrimLeft(Tail(s)) ELSE s
RECURSIVE TrimRight(_)
TrimRight(s) == IF Len(s) > 0 /\ IsSpace(s[Len(s)])
                THEN TrimRight(SubSeq(s, 1, Len(s) - 1)) ELSE s
Trim(s) == TrimRight(TrimLeft(s))

parseExpiry(expiry) ==
    LET first == SlashAt(expiry, 1)
        rest == SubSeq(expiry, first + 1, Len(expiry))
        second == SlashAt(rest, 1)
    IN  [month |-> Trim(SubSeq(expiry, 1, first - 1)),
         year |-> Trim(SubSeq(rest, 1, second - 1))]

\* the guard at the top of handleSubmit
SingletonSubmitReturns == ~mounted

\* every input is `required`: the browser dispatches no submit event while one
\* of them is empty
RequiredInputsFilled == \A id \in DOMAIN inputs : Len(inputs[id]) > 0

\* handleSubmit up to its await
singletonHandleSubmit ==
    /\ RequiredInputsFilled
    /\ IF SingletonSubmitReturns
       THEN /\ lastSubmit' = Event("submit-returned")
            /\ UNCHANGED <<mounted, inputs, payButton, errorMessages, pendingPayments,
                           paymentRequest, config>>
       ELSE /\ pendingPayments < MaxOutstanding
            /\ payButton' = [disabled |-> TRUE, textContent |-> "Processing..."]
            /\ paymentRequest' =
                   [number |-> StripSpaces(inputs.cardNumber),
                    expiryMonth |-> parseExpiry(inputs.expiry).month,
                    expiryYear |-> parseExpiry(inputs.expiry).year,
                    cvc |-> inputs.cvc,
                    holderName |-> inputs.cardholderName,
                    amount |-> config.amount, currency |-> config.currency,
                    sent |-> TRUE]
            /\ pendingPayments' = pendingPayments + 1
            /\ lastSubmit' = Event("submit-sent")
            /\ UNCHANGED <<mounted, inputs, errorMessages, config>>

SingletonUnknownFallback == "An unknown error occurred"

\* the argument of config.onError: the caught VizionGatewayError itself, or a
\* new UNKNOWN_ERROR built from the caught exception's message
SingletonOnErrorArgument(error) ==
    IF IsVizionGatewayError(error) THEN error
    ELSE ServiceError(OrElse(error.message, SingletonUnknownFallback),
                      ServiceErrorType.UNKNOWN_ERROR, DefaultStatusCode)

\* a showError that inserts the new element without removing the existing one
singletonShowErrorKeepingOld(messages, message) == messages \o <<message>>

\* showError(message): any existing error element is removed, a new one inserted
singletonShowError(messages, message) ==
    (IF Len(messages) > 0 THEN Tail(messages) ELSE messages) \o <<message>>

\* handleSubmit from the settling of processCardPayment to its end: the try
\* block's tail, the catch block and the finally block.  Reading a property of
\* this.formElement or this.submitButton throws once unmount has set them to null.
singletonCompleteSubmit ==
    \E outcome \in SingletonOutcomes, successThrows \in BOOLEAN, errorThrows \in BOOLEAN :
        LET result == ServiceProcessCardPayment(outcome)
            resolved == result.settled = "resolved"
            calledSuccess == resolved /\ config.onSuccess
            successThrew == calledSuccess /\ successThrows
            resetThrew == resolved /\ ~successThrew /\ ~mounted
            caught == ~resolved \/ successThrew \/ resetThrew
            calledError == caught /\ config.onError
            errorThrew == calledError /\ errorThrows
            error == IF ~resolved THEN result.error
                     ELSE IF successThrew THEN TypeError("onSuccess threw")
                     ELSE ReadError
            message == error.message
            shown == caught /\ ~errorThrew /\ mounted
            finallyThrew == ~mounted
        IN  /\ pendingPayments > 0
            /\ successThrows => calledSuccess
            /\ errorThrows => calledError
            /\ pendingPayments' = CallsLeftAfterSettle(pendingPayments, ~resolved)
            /\ inputs' = IF resolved /\ ~successThrew /\ mounted THEN EmptyInputs
                         ELSE inputs
            /\ errorMessages' = IF shown THEN singletonShowError(errorMessages, message)
                                ELSE errorMessages
            /\ payButton' = IF mounted THEN [disabled |-> FALSE, textContent |-> PayLabel]
                            ELSE payButton
            /\ lastSubmit' = [name |-> IF caught THEN "completed-failure"
                                       ELSE "completed-success",
                              onSuccess |-> IF calledSuccess THEN 1 ELSE 0,
                              onError |-> IF calledError THEN 1 ELSE 0,
                              uncaught |-> errorThrew \/ finallyThrew,
                              received |-> IF calledError
                                           THEN SingletonOnErrorArgument(error)
                                           ELSE NoError,
                              evicted |-> shown /\ Len(errorMessages) > 0]
            /\ UNCHANGED <<mounted, paymentRequest, config>>

SingletonNext ==
    \/ mount /\ UNCHANGED <<apiVars, formVars, pageVars, utilVars, gatewayVars>>
    \/ unmount /\ UNCHANGED <<apiVars, formVars, pageVars, utilVars, gatewayVars>>
    \/ formatCardNumber /\ UNCHANGED <<apiVars, formVars, pageVars, utilVars, gatewayVars>>
    \/ formatExpiry /\ UNCHANGED <<apiVars, formVars, pageVars, utilVars, gatewayVars>>
    \/ formatCVC /\ UNCHANGED <<apiVars, formVars, pageVars, utilVars, gatewayVars>>
    \/ singletonHandleSubmit /\ UNCHANGED <<apiVars, formVars, pageVars, utilVars, gatewayVars>>
    \/ singletonCompleteSubmit /\ UNCHANGED <<apiVars, formVars, pageVars, utilVars, gatewayVars>>

-----------------------------------------------------------------------------
(* The helpers of utils.ts and the input listeners' string handling, applied
   by a caller to one string *)

MaxShortLen == 3
MaxMiddleLen == 7

\* every string over alphabet of length 0..n
StringsUpTo(alphabet, n) == UNION {[1..k -> alphabet] : k \in 0..n}

\* short strings of digits, spaces and letters
ShortInputs == StringsUpTo(DigitChars \cup {" ", "a"}, MaxShortLen)
\* twelve digits, alone or followed by up to MaxMiddleLen digits and any last
\* digit: 12 to 20 digits
TwelveDigits == Chars(<<4, 2, 4, 2, 4, 2, 4, 2, 4, 2, 4, 2>>)
LongInputs ==
    {TwelveDigits} \cup
    {TwelveDigits \o middle \o <<last>> :
        middle \in StringsUpTo({"1", "8"}, MaxMiddleLen), last \in DigitChars}
\* the four-digit prefixes 60xx
SixtyInputs == {<<"6", "0">> \o s : s \in [1..2 -> DigitChars]}
SpacedVisa == JoinChunksOfFour(ValidVisa)
KnownNumbers ==
    {ValidVisa, InvalidVisa, ValidMastercard, DashedVisa, SpacedVisa,
     Chars(<<3, 7, 8, 2, 8, 2, 2, 4, 6, 3, 1, 0, 0, 0, 5>>),
     Chars(<<6, 0, 1, 1, 1, 1, 1, 1, 1, 1, 1, 1, 1, 1, 1, 7>>)}
UtilInputs == ShortInputs \cup LongInputs \cup SixtyInputs \cup KnownNumbers

NoUtilCall(input) ==
    [input |-> input, fn |-> "none", valid |-> FALSE, brand |-> UNDEFINED,
     text |-> EmptyString]

UtilIdle == utilCall = NoUtilCall(EmptyString)
UtilInit == \E input \in UtilInputs : utilCall = NoUtilCall(input)

\* validateCardNumber(input)
CallValidateCardNumber ==
    /\ utilCall.fn = "none"
    /\ utilCall' = [utilCall EXCEPT !.fn = "validateCardNumber",
                                    !.valid = validateCardNumber(utilCall.input)]

\* detectCardType(input)
CallDetectCardType ==
    /\ utilCall.fn = "none"
    /\ utilCall' = [utilCall EXCEPT !.fn = "detectCardType",
                                    !.brand = detectCardType(utilCall.input)]

\* input.replace(/\s/g, ''): the whitespace pattern in place of the digit one
CallStripSpacesOnly ==
    /\ utilCall.fn = "none"
    /\ utilCall' = [utilCall EXCEPT !.fn = "stripNonDigits",
                                    !.text = StripSpaces(utilCall.input)]

\* input.replace(/\D/g, '')
CallStripNonDigits ==
    /\ utilCall.fn = "none"
    /\ utilCall' = [utilCall EXCEPT !.fn = "stripNonDigits",
                                    !.text = StripNonDigits(utilCall.input)]

\* the card-number input listener run on a field holding input
CallCardNumberDisplay ==
    /\ utilCall.fn = "none"
    /\ utilCall' = [utilCall EXCEPT !.fn = "cardNumberDisplay",
                                    !.text = CardNumberDisplay(utilCall.input)]

UtilNext ==
    \/ CallValidateCardNumber /\ UNCHANGED <<apiVars, formVars, singletonVars, pageVars, gatewayVars>>
    \/ CallDetectCardType /\ UNCHANGED <<apiVars, formVars, singletonVars, pageVars, gatewayVars>>
    \/ CallStripNonDigits /\ UNCHANGED <<apiVars, formVars, singletonVars, pageVars, gatewayVars>>
    \/ CallCardNumberDisplay /\ UNCHANGED <<apiVars, formVars, singletonVars, pageVars, gatewayVars>>

-----------------------------------------------------------------------------
(* The VizionGateway class: one process-wide instance *)

MaxInitializeCalls == 3

Environment == [SANDBOX |-> "sandbox", PRODUCTION |-> "production"]

\* the VizionGatewayConfig objects a page may pass
GatewayConfigs ==
    [apiKey : {"key_a", "key_b"}, merchantId : {"m_1", "m_2"},
     environment : {Environment.SANDBOX, Environment.PRODUCTION}]

NoConfig == [apiKey |-> UNDEFINED, merchantId |-> UNDEFINED, environment |-> UNDEFINED]
NoPaymentService == [baseURL |-> UNDEFINED, authorization |-> UNDEFINED,
                     merchantId |-> UNDEFINED]

\* new PaymentService(config): the base URL and headers of its transport
PaymentService(cfg) ==
    [baseURL |-> IF cfg.environment = Environment.PRODUCTION
                 THEN "https://api.viziongateway.com/v1"
                 ELSE "https://sandbox-api.viziongateway.com/v1",
     authorization |-> cfg.apiKey,
     merchantId |-> cfg.merchantId]

\* the static field before any assignment; objects are told apart by id
NoInstance == [id |-> 0, config |-> NoConfig, paymentService |-> NoPaymentService]

\* the private constructor
VizionGateway(id, cfg) ==
    [id |-> id, config |-> cfg, paymentService |-> PaymentService(cfg)]

NotInitializedMessage ==
    "Vizion Gateway SDK has not been initialized. Call VizionGateway.initialize() first."

NoGatewayCall ==
    [fn |-> "none", arg |-> NoConfig, threw |-> FALSE, message |-> "",
     returned |-> NoInstance, config |-> NoConfig,
     initializeCalls |-> 0, first |-> NoConfig, latest |-> NoConfig]

GatewayInit ==
    /\ gateway = [instance |-> NoInstance, constructed |-> 0]
    /\ gatewayCall = NoGatewayCall

\* the page called initialize before it built a form or used a helper
GatewayReady ==
    LET cfg == [apiKey |-> "key_a", merchantId |-> "m_1",
                environment |-> Environment.SANDBOX] IN
    /\ gateway = [instance |-> VizionGateway(1, cfg), constructed |-> 1]
    /\ gatewayCall = [NoGatewayCall EXCEPT !.fn = "initialize", !.arg = cfg,
                         !.returned = VizionGateway(1, cfg),
                         !.initializeCalls = 1, !.first = cfg, !.latest = cfg]

\* an initialize that constructs a new instance on every call
InitializeAlwaysConstructs(state, cfg) ==
    [instance |-> VizionGateway(state.constructed + 1, cfg),
     constructed |-> state.constructed + 1]

\* the static state after initialize(config)
Initialize(state, cfg) ==
    IF state.instance.id = 0
    THEN [instance |-> VizionGateway(state.constructed + 1, cfg),
          constructed |-> state.constructed + 1]
    ELSE state

initialize ==
    /\ gatewayCall.initializeCalls < MaxInitializeCalls
    /\ \E cfg \in GatewayConfigs :
        LET after == Initialize(gateway, cfg) IN
        /\ gateway' = after
        /\ gatewayCall' = [fn |-> "initialize", arg |-> cfg, threw |-> FALSE,
                           message |-> "", returned |-> after.instance,
                           config |-> NoConfig,
                           initializeCalls |-> gatewayCall.initializeCalls + 1,
                           first |-> IF gatewayCall.initializeCalls = 0 THEN cfg
                                     ELSE gatewayCall.first,
                           latest |-> cfg]

getInstance ==
    /\ gatewayCall' = [gatewayCall EXCEPT
                          !.fn = "getInstance", !.arg = NoConfig,
                          !.threw = (gateway.instance.id = 0),
                          !.message = IF gateway.instance.id = 0
                                      THEN NotInitializedMessage ELSE "",
                          !.returned = gateway.instance,
                          !.config = NoConfig]
    /\ UNCHANGED gateway

\* getConfig() on the instance a caller holds
getConfig ==
    /\ gateway.instance.id # 0
    /\ gatewayCall' = [gatewayCall EXCEPT
                          !.fn = "getConfig", !.arg = NoConfig, !.threw = FALSE,
                          !.message = "", !.returned = gateway.instance,
                          !.config = gateway.instance.config]
    /\ UNCHANGED gateway

\* getPaymentService() on the instance a caller holds
getPaymentService ==
    /\ gateway.instance.id # 0
    /\ gatewayCall' = [gatewayCall EXCEPT
                          !.fn = "getPaymentService", !.arg = NoConfig,
                          !.threw = FALSE, !.message = "",
                          !.returned = gateway.instance, !.config = NoConfig]
    /\ UNCHANGED gateway

\* new PaymentForm(config) of the singleton-based form: it asks for the instance
constructPaymentForm ==
    /\ gatewayCall' = [gatewayCall EXCEPT
                          !.fn = "new PaymentForm", !.arg = NoConfig,
                          !.threw = (gateway.instance.id = 0),
                          !.message = IF gateway.instance.id = 0
                                      THEN NotInitializedMessage ELSE "",
                          !.returned = gateway.instance,
                          !.config = NoConfig]
    /\ UNCHANGED gateway

GatewayNext ==
    \/ initialize /\ UNCHANGED <<apiVars, formVars, singletonVars, pageVars, utilVars>>
    \/ getInstance /\ UNCHANGED <<apiVars, formVars, singletonVars, pageVars, utilVars>>
    \/ getConfig /\ UNCHANGED <<apiVars, formVars, singletonVars, pageVars, utilVars>>
    \/ getPaymentService
         /\ UNCHANGED <<apiVars, formVars, singletonVars, pageVars, utilVars>>
    \/ constructPaymentForm
         /\ UNCHANGED <<apiVars, formVars, singletonVars, pageVars, utilVars>>

-----------------------------------------------------------------------------
(* Specifications *)

BothCallbacks(o) == o.onSuccess /\ o.onError

\* a caller runs the operations of VizionGatewayClient and PaymentService
InitApi ==
    ApiInit /\ FormInit /\ SingletonInit /\ BothCallbacks(options)
        /\ BothCallbacks(config) /\ hosted = "none" /\ UtilIdle /\ GatewayReady
SpecApi == InitApi /\ [][ApiNext]_vars

\* a user drives the client-based form, built with or without callbacks
InitForm ==
    ApiInit /\ FormInit /\ SingletonInit /\ BothCallbacks(config)
        /\ hosted = "client" /\ UtilIdle /\ GatewayReady
SpecForm == InitForm /\ [][FormNext]_vars

\* the same form, when every client.processCardPayment call eventually settles
SettleOutstandingCall ==
    completeSubmit /\ UNCHANGED <<apiVars, singletonVars, pageVars, utilVars, gatewayVars>>
SpecFormLive == InitForm /\ [][FormNext]_vars /\ WF_vars(SettleOutstandingCall)

\* a user drives the singleton-based form, built with or without callbacks
InitSingleton ==
    ApiInit /\ FormInit /\ SingletonInit /\ BothCallbacks(options)
        /\ hosted = "singleton" /\ UtilIdle /\ GatewayReady
SpecSingleton == InitSingleton /\ [][SingletonNext]_vars

\* a page that has constructed one of the two forms, with both callbacks
PageNext ==
    \/ hosted = "client" /\ FormNext
    \/ hosted = "singleton" /\ SingletonNext
InitPage ==
    ApiInit /\ FormInit /\ SingletonInit /\ BothCallbacks(options)
        /\ BothCallbacks(config) /\ hosted \in {"client", "singleton"} /\ UtilIdle /\ GatewayReady
SpecPage == InitPage /\ [][PageNext]_vars

\* a caller applies one helper to one string
InitUtil ==
    ApiInit /\ FormInit /\ SingletonInit /\ BothCallbacks(options)
        /\ BothCallbacks(config) /\ hosted = "none" /\ UtilInit /\ GatewayReady
SpecUtil == InitUtil /\ [][UtilNext]_vars

\* a page that initializes the SDK and asks for its instance, in any order
InitGateway ==
    ApiInit /\ FormInit /\ SingletonInit /\ BothCallbacks(options)
        /\ BothCallbacks(config) /\ hosted = "none"
        /\ utilCall = NoUtilCall(EmptyString) /\ GatewayInit
SpecGateway == InitGateway /\ [][GatewayNext]_vars

-----------------------------------------------------------------------------
(* Claims about the classifiers and the operations, under SpecApi *)

ClientCalled == apiCall.target = "client"
ClientClassified(o) == ClientCalled /\ apiCall.outcome = o
HasText(m) == m \notin {UNDEFINED, NULL, ""}

\* C5: the client's interceptor maps every failure that carries a response with
\* status 401 to AUTHENTICATION with the fixed message and no details, whatever
\* the body holds.
C5_UnauthorizedIsAuthentication ==
    (ClientCalled /\ apiCall.outcome.kind = "response" /\ apiCall.outcome.status = 401)
        => /\ apiCall.classified.settled = "rejected"
           /\ apiCall.classified.error.cls = "VizionGatewayError"
           /\ apiCall.classified.error.type = "authentication_error"
           /\ apiCall.classified.error.message = AuthenticationMessage
           /\ apiCall.classified.error.details = NoDetails

C5_Witness ==
    /\ ClientCalled
    /\ apiCall.outcome.kind = "response"
    /\ apiCall.outcome.status = 401
    /\ apiCall.outcome.data.message = "bad field"
    /\ apiCall.outcome.data.errors = "errors"
    /\ apiCall.classified.error.type = "authentication_error"

\* C6: the client's interceptor maps every failure with status 400 to VALIDATION,
\* with the body's message (the generic one when the body has none) and the
\* body's errors field as details.
C6_BadRequestIsValidation ==
    (ClientCalled /\ apiCall.outcome.kind = "response" /\ apiCall.outcome.status = 400)
        => /\ apiCall.classified.settled = "rejected"
           /\ apiCall.classified.error.cls = "VizionGatewayError"
           /\ apiCall.classified.error.type = "validation_error"
           /\ apiCall.classified.error.message =
                  (IF HasText(apiCall.outcome.data.message)
                   THEN apiCall.outcome.data.message ELSE ValidationFallback)
           /\ apiCall.classified.error.details = DetailsOf(apiCall.outcome.data.errors)

\* C7: the client's interceptor maps every failure that carries a response with
\* a status other than 401 and 400 to API (message from the body or the generic
\* fallback, details from the body's errors), and never classifies a failure
\* that carries a response as NETWORK or UNKNOWN.
C7_OtherStatusIsApi ==
    /\ (ClientCalled /\ apiCall.outcome.kind = "response"
            /\ apiCall.outcome.status \notin {400, 401})
          => /\ apiCall.classified.settled = "rejected"
             /\ apiCall.classified.error.cls = "VizionGatewayError"
             /\ apiCall.classified.error.type = "api_error"
             /\ apiCall.classified.error.message =
                    (IF HasText(apiCall.outcome.data.message)
                     THEN apiCall.outcome.data.message ELSE ApiFallback)
             /\ apiCall.classified.error.details =
                    DetailsOf(apiCall.outcome.data.errors)
    /\ (ClientCalled /\ apiCall.outcome.kind = "response")
          => apiCall.classified.error.type \notin {"network_error", "unknown_error"}

\* C8: the client's interceptor maps every failure with no response and an
\* attempted request to NETWORK with the fixed connectivity message.
C8_NoResponseIsNetwork ==
    (ClientCalled /\ ~apiCall.outcome.hasResponse /\ apiCall.outcome.hasRequest
            /\ apiCall.outcome.kind # "ok")
        => /\ apiCall.classified.settled = "rejected"
           /\ apiCall.classified.error.cls = "VizionGatewayError"
           /\ apiCall.classified.error.type = "network_error"
           /\ apiCall.classified.error.message = NetworkMessage

C8_Witness ==
    /\ ClientCalled
    /\ apiCall.outcome.kind = "network"
    /\ apiCall.outcome.message = "Network Error"
    /\ apiCall.classified.error.message = NetworkMessage
    /\ apiCall.result.error.type = "network_error"

\* C9: a failure with neither a response nor an attempted request reaches the
\* caller of every VizionGatewayClient operation as UNKNOWN, with the failure's
\* own message when it has one and the generic fallback otherwise.
C9_UnexpectedIsUnknown ==
    (ClientCalled /\ apiCall.outcome.kind = "setup")
        => /\ apiCall.result.settled = "rejected"
           /\ apiCall.result.error.cls = "VizionGatewayError"
           /\ apiCall.result.error.type = "unknown_error"
           /\ HasText(apiCall.outcome.message)
                 => apiCall.result.error.message = apiCall.outcome.message
           /\ ~HasText(apiCall.outcome.message)
                 => apiCall.result.error.message = UnknownFallback

C9_Witness ==
    /\ ClientCalled
    /\ apiCall.op = "refundTransaction"
    /\ apiCall.outcome.kind = "setup"
    /\ apiCall.outcome.message = "Request aborted"
    /\ apiCall.result.error.type = "unknown_error"
    /\ apiCall.result.error.message = "Request aborted"

\* the operation-scoped kind the specification gives each operation
ScopedKind(op) ==
    CASE op = "processCardPayment" -> "payment_processing_error"
      [] op \in {"getTransaction", "listTransactions"} -> "transaction_retrieval_error"
      [] op \in {"refundTransaction", "processRefund"} -> "refund_processing_error"
      [] OTHER -> "none"

\* the type and message each operation's catch block gives to what it wraps
WrapKind(target, op) ==
    IF target = "client" /\ op \in {"getTransaction", "listTransactions"}
    THEN "api_error" ELSE ScopedKind(op)

WrapMessage(op) ==
    CASE op = "processCardPayment" -> "Failed to process card payment"
      [] op = "getTransaction" -> "Failed to retrieve transaction"
      [] op = "listTransactions" -> "Failed to list transactions"
      [] op \in {"refundTransaction", "processRefund"} -> "Failed to process refund"
      [] OTHER -> "none"

ClassifiedAs(kinds) ==
    /\ apiCall.target # "none"
    /\ apiCall.classified.settled = "rejected"
    /\ IsVizionGatewayError(apiCall.classified.error)
    /\ apiCall.classified.error.type \in kinds

\* C10 as stated: a failure classified API or UNKNOWN reaches the caller with the
\* operation-scoped kind and the original message; one classified AUTHENTICATION,
\* VALIDATION or NETWORK reaches the caller with that kind.
C10_OperationScopedRelabel ==
    /\ ClassifiedAs({"api_error", "unknown_error"})
          => /\ apiCall.result.error.type = ScopedKind(apiCall.op)
             /\ apiCall.result.error.message = apiCall.classified.error.message
    /\ ClassifiedAs({"authentication_error", "validation_error", "network_error"})
          => apiCall.result.error.type = apiCall.classified.error.type

\* C10 as amended: every error the interceptor created reaches the caller
\* unchanged, API and UNKNOWN included, whichever operation ran; only a caught
\* value that is not a VizionGatewayError gets the operation's type, and it gets
\* the operation's fixed message as well.
C10_ClassifiedSurfacesUnchanged ==
    /\ (apiCall.target # "none" /\ apiCall.classified.settled = "rejected"
            /\ IsVizionGatewayError(apiCall.classified.error))
          => apiCall.result = apiCall.classified
    /\ (apiCall.target # "none" /\ apiCall.classified.settled = "rejected"
            /\ ~IsVizionGatewayError(apiCall.classified.error))
          => /\ apiCall.result.settled = "rejected"
             /\ apiCall.result.error.cls = "VizionGatewayError"
             /\ apiCall.result.error.type = WrapKind(apiCall.target, apiCall.op)
             /\ apiCall.result.error.message = WrapMessage(apiCall.op)

C10_Witness ==
    /\ ClientCalled
    /\ apiCall.op = "processCardPayment"
    /\ apiCall.outcome.kind = "response"
    /\ apiCall.outcome.status = 500
    /\ apiCall.outcome.data.message = "bad field"
    /\ apiCall.result.error.type = "api_error"
    /\ apiCall.result.error.message = "bad field"

ClassifierCreatedError ==
    /\ apiCall.target # "none"
    /\ apiCall.classified.settled = "rejected"
    /\ IsVizionGatewayError(apiCall.classified.error)

\* what the form built on the called SDK hands to its onError callback
DeliveredToOnError ==
    IF apiCall.target = "client" THEN OnErrorArgument(apiCall.result.error)
    ELSE SingletonOnErrorArgument(apiCall.result.error)

\* C11: in every operation of VizionGatewayClient and PaymentService a caught
\* VizionGatewayError is re-thrown as the same record (type, message, details,
\* status code), never wrapped in a second one, and the record a form hands to
\* onError for a failed processCardPayment is the one the interceptor created.
C11_TypedErrorRethrownUnchanged ==
    ClassifierCreatedError
        => /\ apiCall.result.settled = "rejected"
           /\ apiCall.result.error = apiCall.classified.error
           /\ apiCall.op = "processCardPayment"
                 => DeliveredToOnError = apiCall.classified.error

C11_Witness ==
    /\ apiCall.target = "service"
    /\ apiCall.op = "processCardPayment"
    /\ apiCall.outcome.kind = "response"
    /\ apiCall.outcome.status = 404
    /\ apiCall.outcome.data.message = "bad field"
    /\ apiCall.result.error.statusCode = 404
    /\ apiCall.result.error.message = "bad field"
    /\ DeliveredToOnError = apiCall.classified.error

\* C12: every VizionGatewayError an operation produces, those PaymentService's
\* interceptor builds from a response body included, has a type that is a member
\* of the ErrorType enumeration of its module.
C12_KindInClosedSet ==
    (apiCall.target # "none" /\ apiCall.result.settled = "rejected"
        /\ IsVizionGatewayError(apiCall.result.error))
        => apiCall.result.error.type \in
              (IF apiCall.target = "client" THEN ErrorTypeValues
               ELSE ServiceErrorTypeValues)

ServiceCalled == apiCall.target = "service"

\* C13: PaymentService's interceptor maps every failure with status 401 to
\* AUTHENTICATION, whatever the body holds, and every failure with no response
\* to NETWORK.
C13_ServiceClassifiesByStatus ==
    /\ (ServiceCalled /\ apiCall.outcome.kind = "response"
            /\ apiCall.outcome.status = 401)
          => apiCall.classified.error.type = ServiceErrorType.AUTHENTICATION_ERROR
    /\ (ServiceCalled /\ apiCall.outcome.kind # "ok" /\ ~apiCall.outcome.hasResponse)
          => apiCall.classified.error.type = ServiceErrorType.NETWORK_ERROR

\* the try block of the called operation threw or rejected
TryFailed ==
    /\ apiCall.target # "none"
    /\ \/ apiCall.classified.settled = "rejected"
       \/ ClientCalled /\ PropertyReadThrows(apiCall.classified.value)

\* what the catch block of the called operation caught
CaughtValue ==
    IF apiCall.classified.settled = "rejected" THEN apiCall.classified.error
    ELSE ReadError

\* C25: in every operation of both clients a caught value that is not a
\* VizionGatewayError is replaced by one new VizionGatewayError with the
\* operation's fixed message and kind, and no operation ever rejects with a
\* value that is not a VizionGatewayError.
C25_OnlyTypedErrorsEscape ==
    /\ (apiCall.target # "none" /\ apiCall.result.settled = "rejected")
          => IsVizionGatewayError(apiCall.result.error)
    /\ (TryFailed /\ ~IsVizionGatewayError(CaughtValue))
          => /\ apiCall.result.settled = "rejected"
             /\ apiCall.result.error.message = WrapMessage(apiCall.op)
             /\ apiCall.result.error.type = WrapKind(apiCall.target, apiCall.op)
             /\ ClientCalled
                   => apiCall.result.error.details = CaughtDetails(CaughtValue)
             /\ apiCall.result.error.details.tag # "VizionGatewayError"

C25_Witness ==
    /\ ClientCalled
    /\ apiCall.op = "listTransactions"
    /\ apiCall.classified = Resolved(NullData)
    /\ apiCall.result.settled = "rejected"
    /\ apiCall.result.error.type = ErrorType.API
    /\ apiCall.result.error.message = "Failed to list transactions"
    /\ apiCall.result.error.details.tag = "TypeError"

-----------------------------------------------------------------------------
(* Claims about the client-based form, under SpecForm *)

Completed(e) == e.name \in {"completed-success", "completed-failure"}

\* C1: in the client-based form a submit event handled while a
\* processCardPayment call is outstanding starts no second call: at most one
\* call is outstanding at any time.
C1_AtMostOneOutstanding == outstanding <= 1

C1_Witness ==
    /\ lastEvent.name = "submit-ignored"
    /\ isSubmitting
    /\ outstanding = 1

\* C3: in the client-based form the flag is never true without a call
\* outstanding, and once a submission has completed (resolved or rejected,
\* callback thrown or not) the flag is false and the button is enabled and
\* reads 'Pay Now'.
C3_FlagClearedOnCompletion ==
    /\ isSubmitting => outstanding > 0
    /\ Completed(lastEvent) => ~isSubmitting
    /\ ~isSubmitting => /\ ~submitButton.disabled
                        /\ submitButton.textContent = "Pay Now"

C3_Witness ==
    /\ lastEvent.name = "completed-failure"
    /\ lastEvent.onError = 1
    /\ lastEvent.uncaught
    /\ lastRequest.sent
    /\ ~isSubmitting
    /\ ~submitButton.disabled

\* C4: in the client-based form no card number that validateCardNumber rejects
\* is ever handed to client.processCardPayment.
C4_NoRejectedCardReachesTransport ==
    lastRequest.sent => validateCardNumber(lastRequest.cardNumber)

-----------------------------------------------------------------------------
(* Claims about the singleton-based form, under SpecSingleton *)

\* C2: in the singleton-based form a submit event handled while a
\* processCardPayment call is outstanding starts no second call.
C2_SingletonNoSecondCall == pendingPayments <= 1

-----------------------------------------------------------------------------
(* Claims about the helpers, under SpecUtil *)

Called(fn) == utilCall.fn = fn
IsDigitString(s) == \A i \in 1..Len(s) : s[i] \in DigitChars

\* the Luhn sum by position: the k-th digit from the right counts as itself when
\* k is odd and as the digit sum of its double when k is even
LuhnValue(d, k) == IF k % 2 = 1 THEN d ELSE ((2 * d) \div 10) + ((2 * d) % 10)
RECURSIVE LuhnTotal(_, _)
LuhnTotal(digits, k) ==
    IF k > Len(digits) THEN 0
    ELSE LuhnValue(DigitValue(digits[Len(digits) + 1 - k]), k) + LuhnTotal(digits, k + 1)

\* C14: validateCardNumber returns false when the input has fewer than 13 or
\* more than 19 digits (the empty string included); with 13 to 19 digits it
\* returns true exactly when the Luhn sum, taken from the rightmost digit with
\* every second digit doubled and 9 subtracted above 9, is divisible by 10.
C14_LuhnWithinLength ==
    Called("validateCardNumber")
        => LET digits == StripNonDigits(utilCall.input)
           IN  /\ (Len(digits) < 13 \/ Len(digits) > 19) => ~utilCall.valid
               /\ (Len(digits) >= 13 /\ Len(digits) <= 19)
                     => (utilCall.valid <=> LuhnTotal(digits, 1) % 10 = 0)

C14_Witness ==
    /\ Called("validateCardNumber")
    /\ IsDigitString(utilCall.input)
    /\ Len(utilCall.input) = 19
    /\ utilCall.valid

\* the first k digits read as a number, -1 when there are fewer than k
PrefixNumber(digits, k) ==
    IF Len(digits) < k THEN -1 ELSE LeadingNumber(SubSeq(digits, 1, k), 1, 0)

\* the brand rules in their fixed order
BrandByPrefix(digits) ==
    CASE PrefixNumber(digits, 1) = 4 -> "visa"
      [] PrefixNumber(digits, 2) \in 51..55 -> "mastercard"
      [] PrefixNumber(digits, 2) \in {34, 37} -> "amex"
      [] \/ PrefixNumber(digits, 4) = 6011
         \/ PrefixNumber(digits, 2) = 65
         \/ PrefixNumber(digits, 3) \in 644..649
         \/ PrefixNumber(digits, 3) = 622 -> "discover"
      [] OTHER -> UNDEFINED

\* C15: on a digit string detectCardType returns the first brand, in the order
\* visa, mastercard, amex, discover, whose prefix rule matches (4; 51..55; 34 or
\* 37; 6011, 65, 644..649 or 622), and no brand when none matches.
C15_BrandByPrefix ==
    (Called("detectCardType") /\ IsDigitString(utilCall.input))
        => utilCall.brand = BrandByPrefix(utilCall.input)

C15_Witness ==
    /\ Called("detectCardType")
    /\ utilCall.input = Chars(<<6, 0, 1, 1, 1, 1, 1, 1, 1, 1, 1, 1, 1, 1, 1, 7>>)
    /\ utilCall.brand = "discover"

\* C16: detectCardType returns no brand for the empty string and for every
\* input that holds a character that is not a digit.
C16_NoBrandForNonDigitInput ==
    (Called("detectCardType")
        /\ (Len(utilCall.input) = 0 \/ ~IsDigitString(utilCall.input)))
        => utilCall.brand = UNDEFINED

\* C17: removing the non-digit characters is idempotent, leaves only the
\* characters 0-9, and maps the empty string to the empty string.
C17_StripIsIdempotent ==
    Called("stripNonDigits")
        => /\ IsDigitString(utilCall.text)
           /\ StripNonDigits(utilCall.text) = utilCall.text
           /\ Len(utilCall.input) = 0 => Len(utilCall.text) = 0

C17_Witness ==
    /\ Called("stripNonDigits")
    /\ utilCall.input = DashedVisa
    /\ utilCall.text = ValidVisa

\* C18: the value the card-number listeners write back is the typed digits in
\* chunks of four (the last one possibly shorter) separated by exactly one
\* space, with no leading or trailing space; stripping it gives the digits
\* back, and running the listener on it again leaves it unchanged.
C18_DisplayIsReversible ==
    Called("cardNumberDisplay")
        => LET digits == StripNonDigits(utilCall.input)
               shown == utilCall.text
           IN  /\ StripNonDigits(shown) = digits
               /\ CardNumberDisplay(shown) = shown
               /\ \A i \in 1..Len(shown) : (shown[i] = " ") <=> (i % 5 = 0)
               /\ Len(shown) > 0 => shown[1] # " " /\ shown[Len(shown)] # " "
               /\ Len(digits) = 0 => Len(shown) = 0

C18_Witness ==
    /\ Called("cardNumberDisplay")
    /\ utilCall.input = DashedVisa
    /\ Len(utilCall.text) = 19
    /\ utilCall.text[5] = " "
    /\ StripNonDigits(utilCall.text) = ValidVisa

-----------------------------------------------------------------------------
(* Claims about both forms, under SpecPage *)

\* C19: in both forms the card number of the request handed to the transport
\* holds digits only, and the request's amount and currency are the form's
\* configured amount and currency.
C19_RequestHoldsDigitsAndConfig ==
    /\ lastRequest.sent
          => /\ IsDigitString(lastRequest.cardNumber)
             /\ lastRequest.amount = options.amount
             /\ lastRequest.currency = options.currency
    /\ paymentRequest.sent
          => /\ IsDigitString(paymentRequest.number)
             /\ paymentRequest.amount = config.amount
             /\ paymentRequest.currency = config.currency

C19_Witness ==
    /\ hosted = "singleton"
    /\ paymentRequest.sent
    /\ inputs.cardNumber = SpacedVisa
    /\ paymentRequest.number = ValidVisa
    /\ paymentRequest.amount = 4999
    /\ paymentRequest.currency = "XCD"

\* C20: in both forms a processCardPayment call is started only by a submit
\* event, one call per event; the settling of a call leaves one call fewer
\* outstanding, starts no other call and changes no request, and when the
\* submission failed onError has been called exactly once for it.
C20_NoAutomaticRetry ==
    [][/\ outstanding' > outstanding
             => outstanding' = outstanding + 1 /\ lastEvent'.name = "submit-sent"
       /\ outstanding' < outstanding
             => /\ outstanding' = outstanding - 1
                /\ lastRequest' = lastRequest
                /\ lastEvent'.name = "completed-failure" => lastEvent'.onError = 1
       /\ outstanding' = outstanding => lastRequest' = lastRequest
       /\ (Completed(lastEvent') /\ ~Completed(lastEvent))
             => outstanding' = outstanding - 1
       /\ pendingPayments' > pendingPayments
             => pendingPayments' = pendingPayments + 1 /\ lastSubmit'.name = "submit-sent"
       /\ pendingPayments' < pendingPayments
             => /\ pendingPayments' = pendingPayments - 1
                /\ paymentRequest' = paymentRequest
                /\ lastSubmit'.name = "completed-failure" => lastSubmit'.onError = 1
       /\ pendingPayments' = pendingPayments => paymentRequest' = paymentRequest
       /\ (Completed(lastSubmit') /\ ~Completed(lastSubmit))
             => pendingPayments' = pendingPayments - 1]_vars

C20_Witness ==
    /\ hosted = "client"
    /\ lastRequest.sent
    /\ lastEvent.name = "completed-failure"
    /\ lastEvent.onError = 1
    /\ lastEvent.received.type = "network_error"
    /\ outstanding = 0

\* C21: in both forms at most one error message is visible at any time: a new
\* error replaces the one a previous failed attempt left.
C21_AtMostOneErrorVisible ==
    /\ Len(errorMessages) <= 1
    /\ (hosted = "client" /\ lastEvent.name = "completed-failure")
          => errorElement = showError(lastEvent.received)

C21_Witness ==
    /\ hosted = "singleton"
    /\ lastSubmit.name = "completed-failure"
    /\ lastSubmit.evicted
    /\ errorMessages = <<"bad field">>

-----------------------------------------------------------------------------
(* Further claims about the client-based form, under SpecForm *)

\* an input event on the card-number field that changed its value
CardNumberInputEvent ==
    lastEvent' = lastEvent /\ formFields'.cardNumber # formFields.cardNumber

\* C23: after every input event on the card-number field, data-card-type is the
\* brand detectCardType gives for the field's current digits, and no brand when
\* none is detected.
C23_IndicatorFollowsField ==
    [][CardNumberInputEvent
         => cardTypeAttr' = detectCardType(StripNonDigits(formFields'.cardNumber))]_vars

\* a submit event that handleSubmit processed (not one ignored while submitting)
SubmitProcessed ==
    lastEvent' # lastEvent /\ lastEvent'.name \in {"submit-invalid", "submit-sent"}

\* the card-number field's current space-stripped value is non-empty and fails
\* validateCardNumber
CurrentNumberFails ==
    /\ Len(StripSpaces(formFields.cardNumber)) > 0
    /\ ~validateCardNumber(StripSpaces(formFields.cardNumber))

\* C28: whenever a submit event is processed, the card-number field's custom
\* validity is not stale: it is "Invalid card number" only if the field's current
\* value fails validateCardNumber (a corrected number is not blocked), and a
\* submission is sent only if the current value does not fail it (a number made
\* invalid after a passing blur is not accepted).
C28_ValidityFreshAtSubmit ==
    [][SubmitProcessed
         => /\ customValidity = "Invalid card number" => CurrentNumberFails
            /\ lastEvent'.name = "submit-sent" => ~CurrentNumberFails]_vars

-----------------------------------------------------------------------------
(* Further claims about the helpers, under SpecUtil *)

\* the brands whose pattern matches the digits
MatchingBrands(digits) ==
    {b \in {"visa", "mastercard", "amex", "discover"} :
        CASE b = "visa" -> VisaPattern(digits)
          [] b = "mastercard" -> MastercardPattern(digits)
          [] b = "amex" -> AmexPattern(digits)
          [] OTHER -> DiscoverPattern(digits)}

\* C30: the four brand patterns of detectCardType are mutually exclusive: at most
\* one of them matches any digit string, so the brand returned is the one brand
\* that matches, whatever the order in which the patterns are tried.
C30_PatternsMutuallyExclusive ==
    Called("detectCardType")
        => LET matching == MatchingBrands(StripNonDigits(utilCall.input))
           IN  /\ Cardinality(matching) <= 1
               /\ utilCall.brand = UNDEFINED <=> matching = {}
               /\ utilCall.brand # UNDEFINED => matching = {utilCall.brand}

C30_Witness ==
    /\ Called("detectCardType")
    /\ utilCall.input = ValidMastercard
    /\ utilCall.brand = "mastercard"
    /\ MatchingBrands(utilCall.input) = {"mastercard"}

-----------------------------------------------------------------------------
(* Claims about the client-based form whose calls all settle, under
   SpecFormLive *)

\* handleSubmit has run to its end and the button can be pressed again
SubmissionEnded == ~isSubmitting /\ ~submitButton.disabled

\* the form leaves the "Processing..." state
NeverStuckInProcessing == isSubmitting ~> SubmissionEnded

\* of the handlers supplied, exactly one was invoked by the ended submission
ExactlyOneHandlerInvoked ==
    /\ lastEvent.onSuccess + lastEvent.onError <= 1
    /\ (options.onSuccess /\ options.onError)
          => lastEvent.onSuccess + lastEvent.onError = 1

\* C29: when every processCardPayment call eventually settles, every submission
\* that sets isSubmitting eventually ends with the submit button enabled again,
\* and it ends with exactly one of onSuccess and onError invoked (when supplied).
C29_SubmissionEndsWithOneHandler ==
    /\ NeverStuckInProcessing
    /\ [](Completed(lastEvent) => ExactlyOneHandlerInvoked)

-----------------------------------------------------------------------------
(* Further claims about the singleton-based form, under SpecSingleton *)

\* a processCardPayment call settles after unmount() removed the form
SettlesWhileUnmounted == pendingPayments' < pendingPayments /\ ~mounted

\* C27: if unmount() runs while a submission's call is outstanding, the
\* submission still completes cleanly: a successful payment invokes onSuccess
\* and not onError, and handleSubmit ends without an uncaught exception.
C27_UnmountedSubmissionCompletes ==
    [][SettlesWhileUnmounted
         => /\ ~lastSubmit'.uncaught
            /\ lastSubmit'.onSuccess = 1 => lastSubmit'.onError = 0]_vars

-----------------------------------------------------------------------------
(* Further claims about both forms, under SpecPage *)

\* the months "01" .. "12" as the singleton-based form writes them
TwoDigitMonths ==
    {<<"0", d>> : d \in DigitChars \ {"0"}} \cup {<<"1", d>> : d \in {"0", "1", "2"}}

\* C24: the expiry month of the card handed to the transport on submit is a month
\* in 1..12 (two-digit text in the singleton-based form); a submission whose
\* month is outside 1..12 or empty never reaches the transport.
C24_ExpiryMonthInRange ==
    /\ (hosted = "client" /\ lastRequest.sent) => lastRequest.expiryMonth \in 1..12
    /\ (hosted = "singleton" /\ paymentRequest.sent)
          => paymentRequest.expiryMonth \in TwoDigitMonths

\* C26: for one submission at most one of onSuccess and onError is invoked; a
\* submission whose processCardPayment call succeeded (the only case in which
\* onSuccess is invoked) never invokes onError nor shows an error message, even
\* if onSuccess itself throws.
C26_AtMostOneCallback ==
    /\ (hosted = "client" /\ Completed(lastEvent))
          => /\ lastEvent.onSuccess + lastEvent.onError <= 1
             /\ lastEvent.onSuccess = 1 => errorElement.display = "none"
    /\ (hosted = "singleton" /\ Completed(lastSubmit))
          => /\ lastSubmit.onSuccess + lastSubmit.onError <= 1
             /\ lastSubmit.onSuccess = 1 => ~lastSubmit.evicted

-----------------------------------------------------------------------------
(* Claims about the VizionGateway class, under SpecGateway *)

\* C22: getInstance() throws while no initialize call has happened; the first
\* initialize(config) creates the instance; after any later initialize calls,
\* with any configs, initialize and getInstance give that same instance and
\* getConfig() is the first config.
C22_InitializedOnce ==
    /\ gatewayCall.fn = "getInstance"
          => (gatewayCall.threw <=> gatewayCall.initializeCalls = 0)
    /\ gatewayCall.initializeCalls = 0 => gateway.instance = NoInstance
    /\ gatewayCall.initializeCalls > 0
          => gateway.instance = VizionGateway(1, gatewayCall.first)
    /\ (gatewayCall.fn \in {"initialize", "getInstance"} /\ ~gatewayCall.threw)
          => gatewayCall.returned = VizionGateway(1, gatewayCall.first)
    /\ gatewayCall.fn = "getConfig" => gatewayCall.config = gatewayCall.first

C22_Witness ==
    /\ gatewayCall.fn = "getConfig"
    /\ gatewayCall.initializeCalls > 1
    /\ gatewayCall.latest.apiKey # gatewayCall.first.apiKey
    /\ gatewayCall.latest.environment # gatewayCall.first.environment
    /\ gatewayCall.config = gatewayCall.first

====
